---- MODULE Spec2Model ----
(***************************************************************************)
(* EarlyAllocator<PAGE_SIZE> of arceos/modules/bump_allocator/src/lib.rs:  *)
(* a double-ended bump allocator over one region [start, end).  Bytes are  *)
(* allocated forward from b_pos, pages backward from p_pos.                *)
(*                                                                         *)
(* usize is modelled as an unsigned word of WordBits bits.  Rust's integer *)
(* arithmetic on usize panics on overflow when the build has overflow      *)
(* checks (the debug profile) and wraps modulo 2^WordBits when it has not  *)
(* (the release profile); overflow_checks is the profile of the build.     *)
(***************************************************************************)
EXTENDS Integers, Sequences, FiniteSets

\* ---- bounds of the model ------------------------------------------------
\* Width of usize in bits (scaled down from 64).
WordBits == 4
\* Largest ordinary Layout size requested from alloc.
MaxSize == 2
\* Largest ordinary num_pages requested from alloc_pages.
MaxPages == 2
\* Largest number of byte allocations tracked as live at one time.
MaxLive == 2
\* Largest number of calls, per run, that misuse the allocator: a dealloc
\* that passes the range check with an address and size that is not a live
\* allocation, or a call in which an arithmetic operation wraps.
MaxFaults == 1

\* ---- program constants --------------------------------------------------
\* The const generic parameter PAGE_SIZE (scaled down from 0x1000).
PAGE_SIZE == 2

RECURSIVE Pow2(_)
Pow2(n) == IF n = 0 THEN 1 ELSE 2 * Pow2(n - 1)

\* Number of values of usize; usize::MAX is Mod - 1.
Mod == Pow2(WordBits)
\* isize::MAX, the largest size a Layout can have.
MaxLayout == Mod \div 2 - 1

\* ---- input domains ------------------------------------------------------
Word == 0 .. Mod - 1
\* (start, size) pairs given to init: a region at address 0, a region that
\* ends off a page boundary, and a page-aligned region near the top of the
\* address space.  start + size does not overflow.
Regions ==
    { <<0, 2 * PAGE_SIZE>>,
      <<PAGE_SIZE, 2 * PAGE_SIZE + 1>>,
      <<Mod - 3 * PAGE_SIZE, 2 * PAGE_SIZE>> }
\* Layout sizes: small ones and the largest possible one.
ByteSizes == (0 .. MaxSize) \cup {MaxLayout}
\* Layout alignments and align_pow2: powers of two below, at and above
\* PAGE_SIZE.
Aligns == {1, PAGE_SIZE, 2 * PAGE_SIZE}
\* num_pages: small ones and one whose byte size does not fit in usize.
PageCounts == (0 .. MaxPages) \cup {Mod \div PAGE_SIZE}
\* NonNull<u8> addresses.
NonNullAddrs == 1 .. Mod - 1

\* ---- state --------------------------------------------------------------
VARIABLES
    start,            \* field start
    end,              \* field end
    b_pos,            \* field b_pos
    p_pos,            \* field p_pos
    count,            \* field count
    overflow_checks,  \* build profile: TRUE = overflow panics, FALSE = wraps
    initialized,      \* init has been called
    last,             \* the last call: operation, outcome, value returned
    live,             \* history: byte allocations returned and not yet freed
    foreign,          \* history: number of deallocs of what was not live
    wraps,            \* history: number of calls whose arithmetic wrapped
    batch             \* history: the byte allocations since count was last 0

fields == <<start, end, b_pos, p_pos, count>>
vars == <<start, end, b_pos, p_pos, count, overflow_checks, initialized,
          last, live, foreign, wraps, batch>>

\* Every dealloc so far freed a live allocation.
disciplined == foreign = 0

\* The batch of byte allocations made since count was last 0: base is b_pos
\* when count was last 0, lifo whether every dealloc since then has freed the
\* most recent live allocation.  base is not kept once lifo is FALSE.
Batch(base, lifo) == [base |-> base, lifo |-> lifo]

\* Outcomes of a call.
Ok == "Ok"
NoMemory == "NoMemory"
PanicInvalid == "panic: invalid deallocation"
PanicOverflow == "panic: arithmetic overflow"
PanicUnimplemented == "panic: not implemented"
Panics == {PanicInvalid, PanicOverflow, PanicUnimplemented}

Call(op, res, ret) == [op |-> op, res |-> res, ret |-> ret]

\* A panic ends the program.
halted == last.res \in Panics

\* ---- machine arithmetic -------------------------------------------------
\* The mathematical result does not fit in usize.
Overflows(x) == x < 0 \/ x >= Mod
wrap(x) == x % Mod

\* A call in which some arithmetic operation overflows: with overflow checks
\* it panics, without them it wraps and is counted in wraps.
Wrapping(overflowing) ==
    /\ (overflowing /\ ~overflow_checks) => foreign + wraps < MaxFaults
    /\ wraps' = IF overflowing /\ ~overflow_checks THEN wraps + 1 ELSE wraps

RECURSIVE BitAnd(_, _, _)
\* x & y over the low n bits.
BitAnd(x, y, n) ==
    IF n = 0 THEN 0
    ELSE (x % 2) * (y % 2) + 2 * BitAnd(x \div 2, y \div 2, n - 1)
\* !x on usize.
BitNot(x) == Mod - 1 - x

\* ---- EarlyAllocator::new ------------------------------------------------
new ==
    /\ start = 0
    /\ end = 0
    /\ b_pos = 0
    /\ p_pos = 0
    /\ count = 0

Init ==
    /\ new
    /\ overflow_checks \in BOOLEAN
    /\ initialized = FALSE
    /\ last = Call("new", Ok, 0)
    /\ live = <<>>
    /\ foreign = 0
    /\ wraps = 0
    /\ batch = Batch(0, TRUE)

\* ---- BaseAllocator ------------------------------------------------------
init(s, size) ==
    /\ ~halted
    /\ start' = s
    /\ end' = s + size
    /\ b_pos' = s
    /\ p_pos' = s + size
    /\ count' = 0
    /\ initialized' = TRUE
    /\ last' = Call("init", Ok, 0)
    /\ live' = <<>>
    /\ foreign' = 0
    /\ wraps' = 0
    /\ batch' = Batch(s, TRUE)
    /\ UNCHANGED overflow_checks

\* Mutation: add_memory appends the bytes to the region and returns Ok.
add_memory_extending(s, size) ==
    /\ ~halted
    /\ end' = wrap(end + size)
    /\ last' = Call("add_memory", Ok, 0)
    /\ UNCHANGED <<start, b_pos, p_pos, count, overflow_checks, initialized,
                   live, foreign, wraps, batch>>

\* unimplemented!(), in any state of the allocator.
add_memory(s, size) ==
    /\ ~halted
    /\ last' = Call("add_memory", PanicUnimplemented, 0)
    /\ UNCHANGED <<fields, overflow_checks, initialized, live, foreign, wraps,
                   batch>>

\* ---- history of live byte allocations -----------------------------------
Alloc(addr, size) == [addr |-> addr, size |-> size]
IsLive(addr, size) == \E i \in 1 .. Len(live) : live[i] = Alloc(addr, size)
\* Index of the most recent live allocation of this address and size.
LiveIndex(addr, size) ==
    CHOOSE i \in 1 .. Len(live) :
        /\ live[i] = Alloc(addr, size)
        /\ \A j \in (i + 1) .. Len(live) : live[j] # Alloc(addr, size)
\* The most recent live allocation.
IsTop(addr, size) == live # <<>> /\ live[Len(live)] = Alloc(addr, size)
RemoveAt(seq, i) == SubSeq(seq, 1, i - 1) \o SubSeq(seq, i + 1, Len(seq))

\* ---- calls explored -----------------------------------------------------
\* Arguments given to dealloc: the live allocations, and addresses at and
\* around the two ends of the region with a layout of one byte.
DeallocArgs ==
    {<<live[i].addr, live[i].size>> : i \in 1 .. Len(live)}
        \cup {<<pos, 1>> : pos \in {start - 1, start, start + 1, end - 1, end}
                                    \cap NonNullAddrs}
\* Addresses given to dealloc_pages: at and around the two ends of the
\* region, and the lowest page handed out.
DeallocPagesAddrs == {start - 1, start, p_pos, end - 1, end} \cap Word

\* ---- ByteAllocator ------------------------------------------------------
\* Mutation: the address handed out is b_pos rounded up to the alignment.
alloc_addr_aligned(align) ==
    wrap(b_pos + align - 1) - (wrap(b_pos + align - 1) % align)

\* The address alloc hands out: self.b_pos as *mut u8.
alloc_addr(align) == b_pos

\* Mutation: b_pos is advanced before the request is refused.
refused_b_pos_bumped(size) == wrap(b_pos + size)

\* b_pos after a refused request: both returns of NoMemory come before
\* self.b_pos += size.
refused_b_pos(size) == b_pos

\* alloc(layout), layout = (size, align).  align is not read.
alloc(size, align) ==
    /\ initialized /\ ~halted
    /\ Len(live) < MaxLive
    /\ UNCHANGED <<start, end, p_pos, overflow_checks, initialized, foreign>>
    /\ Wrapping(\/ Overflows(b_pos + size)
                \/ /\ wrap(b_pos + size) <= p_pos
                   /\ b_pos # 0
                   /\ Overflows(count + 1))
    /\ IF Overflows(b_pos + size) /\ overflow_checks
       THEN \* self.b_pos + size panics
            /\ last' = Call("alloc", PanicOverflow, 0)
            /\ UNCHANGED <<b_pos, count, live, batch>>
       ELSE IF wrap(b_pos + size) > p_pos
       THEN /\ last' = Call("alloc", NoMemory, 0)
            /\ b_pos' = refused_b_pos(size)
            /\ UNCHANGED <<count, live, batch>>
       ELSE IF b_pos = 0
       THEN \* NonNull::new(0) is None
            /\ last' = Call("alloc", NoMemory, 0)
            /\ b_pos' = refused_b_pos(size)
            /\ UNCHANGED <<count, live, batch>>
       ELSE IF Overflows(count + 1) /\ overflow_checks
       THEN \* self.count += 1 panics, after self.b_pos += size
            /\ b_pos' = wrap(b_pos + size)
            /\ last' = Call("alloc", PanicOverflow, 0)
            /\ UNCHANGED <<count, live, batch>>
       ELSE /\ b_pos' = wrap(b_pos + size)
            /\ count' = wrap(count + 1)
            /\ live' = Append(live, Alloc(alloc_addr(align), size))
            /\ batch' = IF count = 0 THEN Batch(b_pos, TRUE) ELSE batch
            /\ last' = Call("alloc", Ok, alloc_addr(align))

\* Mutation: the range check accepts pos == end.
in_range_end_inclusive(pos) == pos >= start /\ pos <= end

\* The range check of dealloc, and of dealloc_pages.
in_range(pos) == pos >= start /\ pos < end

\* Mutation: the emptied byte zone is not freed, b_pos stays where it was.
freed_b_pos_kept(pos) == b_pos

\* b_pos once count has gone down to zero: self.b_pos = pos.
freed_b_pos(pos) == pos

\* Mutation: the byte zone is taken to be empty one allocation early.
zone_empty_early(c) == c <= 1

\* if self.count == 0
zone_empty(c) == c = 0

\* dealloc(pos, layout), layout = (size, _).  layout is not read.
dealloc(pos, size) ==
    /\ initialized /\ ~halted
    /\ <<pos, size>> \in DeallocArgs
    /\ (in_range(pos) /\ ~IsLive(pos, size)) => foreign + wraps < MaxFaults
    /\ Wrapping(in_range(pos) /\ Overflows(count - 1))
    /\ UNCHANGED <<start, end, p_pos, overflow_checks, initialized>>
    /\ IF ~in_range(pos)
       THEN /\ last' = Call("dealloc", PanicInvalid, 0)
            /\ UNCHANGED <<b_pos, count, live, foreign, batch>>
       ELSE IF Overflows(count - 1) /\ overflow_checks
       THEN \* self.count -= 1 panics
            /\ last' = Call("dealloc", PanicOverflow, 0)
            /\ UNCHANGED <<b_pos, count, live, foreign, batch>>
       ELSE /\ count' = wrap(count - 1)
            /\ b_pos' = IF zone_empty(wrap(count - 1))
                        THEN freed_b_pos(pos)
                        ELSE b_pos
            /\ batch' = IF wrap(count - 1) = 0 THEN Batch(b_pos', TRUE)
                        ELSE IF batch.lifo /\ IsTop(pos, size) THEN batch
                        ELSE Batch(0, FALSE)
            /\ last' = Call("dealloc", Ok, 0)
            /\ IF IsLive(pos, size)
               THEN /\ live' = RemoveAt(live, LiveIndex(pos, size))
                    /\ UNCHANGED foreign
               ELSE /\ foreign' = foreign + 1
                    /\ UNCHANGED live

\* Values returned by total_bytes(), used_bytes() and available_bytes() when
\* the subtraction does not panic.
total_bytes == wrap(end - start)
used_bytes == wrap(b_pos - start)
available_bytes == wrap(end - b_pos)


\* ---- PageAllocator ------------------------------------------------------
\* address & !(align_pow2 - 1)
align_down(address, align_pow2) ==
    BitAnd(address, BitNot(align_pow2 - 1), WordBits)

alloc_pages(num_pages, align_pow2) ==
    /\ initialized /\ ~halted
    /\ UNCHANGED <<start, end, b_pos, count, overflow_checks, initialized,
                   live, foreign, batch>>
    /\ Wrapping(\/ Overflows(num_pages * PAGE_SIZE)
                \/ Overflows(p_pos - wrap(num_pages * PAGE_SIZE)))
    /\ LET bytes == num_pages * PAGE_SIZE
           candidate == p_pos - wrap(bytes)
           aligned_pos == align_down(wrap(candidate), align_pow2)
       IN  IF (Overflows(bytes) \/ Overflows(candidate)) /\ overflow_checks
           THEN \* self.p_pos - num_pages * PAGE_SIZE panics
                /\ last' = Call("alloc_pages", PanicOverflow, 0)
                /\ UNCHANGED p_pos
           ELSE IF wrap(candidate) < start
           THEN /\ last' = Call("alloc_pages", NoMemory, 0)
                /\ UNCHANGED p_pos
           ELSE /\ p_pos' = aligned_pos
                /\ last' = Call("alloc_pages", Ok, aligned_pos)

\* Mutation: dealloc_pages gives the pages back.
dealloc_pages_reclaiming(pos, num_pages) ==
    /\ initialized /\ ~halted
    /\ pos \in DeallocPagesAddrs
    /\ UNCHANGED <<start, end, b_pos, count, overflow_checks, initialized,
                   live, foreign, wraps, batch>>
    /\ IF in_range(pos)
       THEN /\ last' = Call("dealloc_pages", Ok, 0)
            /\ p_pos' = IF pos = p_pos THEN wrap(p_pos + num_pages * PAGE_SIZE) ELSE p_pos
       ELSE /\ last' = Call("dealloc_pages", PanicInvalid, 0)
            /\ UNCHANGED p_pos

dealloc_pages(pos, num_pages) ==
    /\ initialized /\ ~halted
    /\ pos \in DeallocPagesAddrs
    /\ UNCHANGED <<fields, overflow_checks, initialized, live, foreign, wraps,
                   batch>>
    /\ IF in_range(pos)
       THEN last' = Call("dealloc_pages", Ok, 0)
       ELSE last' = Call("dealloc_pages", PanicInvalid, 0)

\* Values returned by total_pages(), used_pages() and available_pages() when
\* the subtraction does not panic.
total_pages == wrap(end - start) \div PAGE_SIZE
used_pages == wrap(p_pos - start) \div PAGE_SIZE
available_pages == wrap(end - p_pos) \div PAGE_SIZE


\* ---- specification ------------------------------------------------------
Next ==
    \/ \E r \in Regions : init(r[1], r[2])
    \/ \E r \in Regions : add_memory(r[1], r[2])
    \/ \E size \in ByteSizes, align \in Aligns : alloc(size, align)
    \/ \E pos \in NonNullAddrs, size \in ByteSizes : dealloc(pos, size)
    \/ \E num_pages \in PageCounts, align_pow2 \in Aligns : alloc_pages(num_pages, align_pow2)
    \/ \E pos \in Word, num_pages \in 1 .. MaxPages : dealloc_pages(pos, num_pages)

Spec == Init /\ [][Next]_vars

\* ---- properties ---------------------------------------------------------
\* The addresses of a byte allocation.
Bytes(a) == {wrap(a.addr + i) : i \in 0 .. a.size - 1}
InRegion(pos) == pos >= start /\ pos < end

\* C1: after init, under any sequence of alloc, dealloc of live allocations,
\* alloc_pages with a power-of-two alignment and dealloc_pages of in-range
\* addresses, start <= b_pos <= p_pos <= end.
C1_Ordering ==
    (initialized /\ disciplined) =>
        (start <= b_pos /\ b_pos <= p_pos /\ p_pos <= end)

\* C2: in a run of byte allocations and frees of live allocations only (no
\* page has been taken: p_pos = end), the address a successful alloc
\* returns lies in [start, p_pos) and its bytes overlap no other live
\* allocation.
C2_AllocInFreeZoneNoOverlap ==
    (disciplined /\ p_pos = end /\ last.op = "alloc" /\ last.res = Ok) =>
        /\ start <= last.ret /\ last.ret < p_pos
        /\ \A i \in 1 .. Len(live) - 1 :
               Bytes(live[i]) \cap Bytes(live[Len(live)]) = {}

\* C3: alloc(size, align) returns NoMemory exactly when b_pos + size > p_pos;
\* otherwise it succeeds, returns the old b_pos, advances b_pos by size and
\* increments count.
C3_AllocContract ==
    [][(last'.op = "alloc") =>
       \A size \in ByteSizes, align \in Aligns :
          alloc(size, align) =>
              /\ (last'.res = NoMemory) <=> (b_pos + size > p_pos)
              /\ (last'.res # NoMemory) =>
                     /\ last'.res = Ok
                     /\ last'.ret = b_pos
                     /\ b_pos' = b_pos + size
                     /\ count' = count + 1]_vars

\* C4: alloc_pages(num_pages, align_pow2) returns NoMemory exactly when the
\* mathematical value p_pos - num_pages * PAGE_SIZE is below start;
\* otherwise it succeeds, sets p_pos to that value aligned down to
\* align_pow2 and returns the new p_pos.
C4_AllocPagesContract ==
    [][(last'.op = "alloc_pages") =>
       \A num_pages \in PageCounts, align_pow2 \in Aligns :
          alloc_pages(num_pages, align_pow2) =>
              LET candidate == p_pos - num_pages * PAGE_SIZE
              IN  /\ (last'.res = NoMemory) <=> (candidate < start)
                  /\ (last'.res # NoMemory) =>
                         /\ last'.res = Ok
                         /\ p_pos' = candidate - (candidate % align_pow2)
                         /\ last'.ret = p_pos']_vars

\* C5: dealloc(address, size) with address in [start, end) decrements count
\* by exactly 1, sets b_pos to address when the new count is 0 and leaves
\* b_pos alone when it is not; start, end and p_pos are unchanged.
C5_DeallocEffect ==
    [][(last'.op = "dealloc") =>
          \A arg \in DeallocArgs :
              (dealloc(arg[1], arg[2]) /\ InRegion(arg[1])) =>
                  /\ count' = count - 1
                  /\ (count' = 0) => (b_pos' = arg[1])
                  /\ (count' > 0) => (b_pos' = b_pos)
                  /\ UNCHANGED <<start, end, p_pos>>]_vars

C7_PageAccounting ==
    initialized =>
        /\ total_pages = (end - start) \div PAGE_SIZE
        /\ used_pages = (end - p_pos) \div PAGE_SIZE
        /\ available_pages = (p_pos - start) \div PAGE_SIZE

\* C8: right after init(start, size), total_bytes() = size, used_bytes() = 0
\* and used_pages() = 0.
C8_AfterInit ==
    [][\A r \in Regions :
          init(r[1], r[2]) =>
              (total_bytes' = r[2] /\ used_bytes' = 0 /\ used_pages' = 0)]_vars

\* C9: an accepted dealloc_pages (address in [start, end)) changes none of
\* start, end, b_pos, p_pos, count, hence neither used_pages() nor
\* available_pages().
C9_DeallocPagesNoEffect ==
    [][(last'.op = "dealloc_pages" /\ last'.res = Ok) =>
          /\ UNCHANGED <<start, end, b_pos, p_pos, count>>
          /\ used_pages' = used_pages
          /\ available_pages' = available_pages]_vars

\* dealloc_pages has been accepted after pages were handed out.
C9_Witness ==
    /\ last = Call("dealloc_pages", Ok, 0)
    /\ start <= p_pos /\ p_pos < end

\* C10: dealloc and dealloc_pages of an address outside [start, end) panic
\* with the invalid-deallocation panic and leave count, b_pos and p_pos as
\* they were; of an address inside [start, end) they never take that panic.
C10_InvalidAddressPanics ==
    [][/\ (last'.op = "dealloc") =>
              \A arg \in DeallocArgs :
                  dealloc(arg[1], arg[2]) =>
                      IF InRegion(arg[1])
                      THEN last'.res # PanicInvalid
                      ELSE /\ last'.res = PanicInvalid
                           /\ UNCHANGED <<count, b_pos, p_pos>>
       /\ (last'.op = "dealloc_pages") =>
              \A pos \in DeallocPagesAddrs, num_pages \in 1 .. MaxPages :
                  dealloc_pages(pos, num_pages) =>
                      IF InRegion(pos)
                      THEN last'.res # PanicInvalid
                      ELSE /\ last'.res = PanicInvalid
                           /\ UNCHANGED <<count, b_pos, p_pos>>]_vars

\* dealloc has panicked on an invalid address while byte allocations were
\* outstanding and pages had been handed out.
C10_Witness ==
    /\ last = Call("dealloc", PanicInvalid, 0)
    /\ count > 0 /\ p_pos < end

\* C11: after init and any sequence of successful page allocations, with any
\* power-of-two align_pow2 and any region end address, the page-zone size
\* end - p_pos is a multiple of PAGE_SIZE (no arithmetic has wrapped).
C11_PageZoneMultiple ==
    (initialized /\ wraps = 0) => (end - p_pos) % PAGE_SIZE = 0

\* Successful allocs minus accepted deallocs since init: the live
\* allocations, less the accepted deallocs that freed none of them.
outstanding == Len(live) - foreign

\* C12: in every state after init, whatever in-range addresses dealloc was
\* given, count equals the number of successful allocs minus the number of
\* accepted deallocs and has not wrapped below zero, so count = 0 exactly
\* when nothing is outstanding.
C12_CountIsOutstanding ==
    initialized =>
        /\ count = outstanding
        /\ (count = 0) <=> (outstanding = 0)

\* C13: after init, every step of alloc, dealloc, alloc_pages and
\* dealloc_pages leaves start and end unchanged and does not increase p_pos.
C13_PPosNeverRestored ==
    [][(last'.op \in {"alloc", "dealloc", "alloc_pages", "dealloc_pages"}) =>
          /\ p_pos' <= p_pos
          /\ UNCHANGED <<start, end>>]_vars

\* C14: add_memory(start, size), in any state, ends in the unimplemented
\* panic, never in Ok or an ordinary error, and changes none of start, end,
\* b_pos, p_pos, count.
C14_AddMemoryUnimplemented ==
    [][(last'.op = "add_memory") =>
          \A r \in Regions :
              add_memory(r[1], r[2]) =>
                  /\ last'.res = PanicUnimplemented
                  /\ last'.res \notin {Ok, NoMemory}
                  /\ UNCHANGED <<start, end, b_pos, p_pos, count>>]_vars

\* add_memory has panicked on an allocator with a byte allocation
\* outstanding and pages handed out.
C14_Witness ==
    /\ last = Call("add_memory", PanicUnimplemented, 0)
    /\ count > 0 /\ p_pos < end /\ start < b_pos

\* C15: a batch of byte allocations that starts with count = 0 and b_pos = B
\* and is freed in LIFO order (every dealloc frees the most recent live
\* allocation): the free that brings count back to 0 sets b_pos to B, so
\* used_bytes() is what it was before the batch, and every earlier free
\* leaves b_pos at its high-water mark.
C15_LifoReclaims ==
    [][(last'.op = "dealloc" /\ last'.res = Ok /\ batch.lifo) =>
          \A arg \in DeallocArgs :
              (dealloc(arg[1], arg[2]) /\ IsTop(arg[1], arg[2])) =>
                  IF count' = 0
                  THEN /\ b_pos' = batch.base
                       /\ used_bytes' = wrap(batch.base - start)
                  ELSE b_pos' = b_pos]_vars

\* The most recent of two allocations of a batch has been freed: b_pos is
\* still at the high-water mark, above the end of the allocation that is
\* left, and that allocation is at the base of the batch.
C15_Witness ==
    /\ last = Call("dealloc", Ok, 0)
    /\ batch.lifo /\ disciplined /\ wraps = 0
    /\ count = 1 /\ Len(live) = 1
    /\ live[1].addr = batch.base
    /\ b_pos > live[1].addr + live[1].size

\* C16: alloc does not honour the alignment: alloc(size, a1) and
\* alloc(size, a2) have the same result and the same successor state for
\* any two alignments, and a successful alloc returns b_pos as it is, not
\* rounded up, and moves b_pos by size only.
C16_AlignIgnored ==
    [][(last'.op = "alloc") =>
          \A size \in ByteSizes, a1 \in Aligns :
              alloc(size, a1) =>
                  /\ \A a2 \in Aligns : alloc(size, a2)
                  /\ (last'.res = Ok) =>
                         /\ last'.ret = b_pos
                         /\ b_pos' = wrap(b_pos + size)]_vars

\* alloc has returned an address that is not a multiple of PAGE_SIZE, one
\* of the alignments requested.
C16_Witness ==
    /\ last.op = "alloc" /\ last.res = Ok
    /\ PAGE_SIZE \in Aligns
    /\ last.ret % PAGE_SIZE # 0
    /\ wraps = 0

\* C17: a successful alloc_pages(num_pages, align_pow2), in a run without
\* arithmetic wrap and with frees of live allocations only, returns a
\* multiple of align_pow2 whose block [addr, addr + num_pages * PAGE_SIZE)
\* lies inside [start, end), below every block handed out earlier (those
\* lie at or above the old p_pos), and shares no byte with a live byte
\* allocation.
C17_PagesBlockSafe ==
    [][(last'.op = "alloc_pages" /\ last'.res = Ok
            /\ wraps' = 0 /\ disciplined) =>
          \A num_pages \in PageCounts, align_pow2 \in Aligns :
              alloc_pages(num_pages, align_pow2) =>
                  LET addr == last'.ret
                      top == addr + num_pages * PAGE_SIZE
                  IN  /\ addr % align_pow2 = 0
                      /\ start <= addr /\ top <= end
                      /\ top <= p_pos
                      /\ \A i \in 1 .. Len(live) :
                             Bytes(live[i]) \cap (addr .. top - 1) = {}]_vars

\* C18: an alloc or alloc_pages that returns NoMemory leaves start, end,
\* b_pos, p_pos and count as they were before the call.
C18_NoMemoryNoEffect ==
    [][(last'.op \in {"alloc", "alloc_pages"} /\ last'.res = NoMemory) =>
          UNCHANGED <<start, end, b_pos, p_pos, count>>]_vars

\* alloc has been refused for lack of room between b_pos and p_pos, with a
\* byte allocation outstanding and pages handed out.
C18_Witness ==
    /\ last = Call("alloc", NoMemory, 0)
    /\ count > 0 /\ p_pos < end
    /\ start < b_pos /\ b_pos <= p_pos
    /\ wraps = 0

\* C19: in every state reached after init by alloc, dealloc of live
\* allocations, alloc_pages and dealloc_pages (no arithmetic has wrapped),
\* none of the subtractions of the accounting queries underflows, and
\* used_bytes() + available_bytes() = total_bytes().
C19_QueriesDoNotUnderflow ==
    (initialized /\ disciplined /\ wraps = 0) =>
        /\ b_pos - start >= 0
        /\ end - b_pos >= 0
        /\ p_pos - start >= 0
        /\ end - p_pos >= 0
        /\ used_bytes + available_bytes = total_bytes
====
